---- MODULE Spec2Model ----
(***************************************************************************)
(* Model of WordlistGenerator (src/password_tool.py, lines 47-192) and of  *)
(* the guard its two front-ends put before it (lines 232-236, 433-442).    *)
(*                                                                         *)
(* A Python str is a sequence of one-character strings.  A Python set of   *)
(* str is a set of such sequences; turning a set into a list, or iterating *)
(* it, yields its elements in an order fixed by the interpreter's string   *)
(* hash seed (PYTHONHASHSEED, drawn afresh for every process): the model   *)
(* keeps the seed as the variable hashseed and derives every such order    *)
(* from it with ListOfSet.                                                 *)
(***************************************************************************)
EXTENDS Integers, Sequences, FiniteSets, TLC

VARIABLES
    user_data,          \* the profile: the dict's values, in insertion order
    current_year,       \* datetime.now().year, read by __init__
    hashseed,           \* the process's string hash seed
    max_leet_subs,      \* generate_wordlist's max_leet_subs argument
    include_common,     \* generate_wordlist's include_common argument
    include_keyboard,   \* generate_wordlist's include_keyboard argument
    exists,             \* whether output_file exists on disk
    f,                  \* the content of output_file (see Block)
    base_words,         \* self.base_words, a list
    number_variations,  \* generate_wordlist's local of line 140, a list
    idx,                \* position of the for loop of line 151 in base_words
    pc,                 \* where the run is
    word,               \* argument of a direct _leet_transform call
    ret                 \* value returned by a direct method call

vars == <<user_data, current_year, hashseed, max_leet_subs, include_common,
          include_keyboard, exists, f, base_words, number_variations, idx, pc, word, ret>>

(***************************************************************************)
(* Bounds of the model.                                                    *)
(***************************************************************************)
MaxSeed == 1        \* hash seeds 0..MaxSeed
MaxLeet == 4        \* leet budgets -1..MaxLeet
LongLen == 57       \* length of the long profile value
MaxWordLen == 3     \* words given to _leet_transform directly
MaxFields == 3      \* profile sizes given to __init__ directly
RunYear == 2024     \* the clock's year during a generation run
MinYear == 1970     \* clock years given to _generate_number_variations
MaxYear == 2100

Seeds == 0..MaxSeed
Budgets == (0 - 1)..MaxLeet

(***************************************************************************)
(* Characters and str methods.                                             *)
(***************************************************************************)
Lowers == <<"a","b","c","d","e","f","g","h","i","j","k","l","m",
            "n","o","p","q","r","s","t","u","v","w","x","y","z">>
Uppers == <<"A","B","C","D","E","F","G","H","I","J","K","L","M",
            "N","O","P","Q","R","S","T","U","V","W","X","Y","Z">>
Digits == <<"0","1","2","3","4","5","6","7","8","9">>

\* The characters the model uses, in code point order.
Ascii == <<"!","#","$","%","&","*","+","-",".">> \o Digits \o <<"?","@">>
         \o Uppers \o <<"^","_">> \o Lowers \o <<"~">>

Code(c) == CHOOSE i \in 1..Len(Ascii) : Ascii[i] = c

ToSet(s) == {s[i] : i \in 1..Len(s)}

Min(a, b) == IF a < b THEN a ELSE b

\* str.lower() and str.upper() of one character
LowerChar(c) == IF \E i \in 1..26 : Uppers[i] = c
                THEN Lowers[CHOOSE i \in 1..26 : Uppers[i] = c] ELSE c
UpperChar(c) == IF \E i \in 1..26 : Lowers[i] = c
                THEN Uppers[CHOOSE i \in 1..26 : Lowers[i] = c] ELSE c

\* str.lower()
lower(w) == [i \in 1..Len(w) |-> LowerChar(w[i])]

\* str.capitalize(): first character upper case, the rest lower case
capitalize(w) == [i \in 1..Len(w) |-> IF i = 1 THEN UpperChar(w[i]) ELSE LowerChar(w[i])]

\* str(n) of an int
RECURSIVE StrNat(_)
StrNat(n) == IF n < 10 THEN <<Digits[n + 1]>>
             ELSE StrNat(n \div 10) \o <<Digits[(n % 10) + 1]>>
str(n) == IF n < 0 THEN <<"-">> \o StrNat(0 - n) ELSE StrNat(n)

\* str.zfill(width)
zfill(s, width) == IF Len(s) >= width THEN s
                   ELSE [i \in 1..(width - Len(s)) |-> "0"] \o s

\* s < t in Python's str order: decided at the first position where they differ
StrLess(s, t) ==
    LET differ == {i \in 1..Min(Len(s), Len(t)) : s[i] # t[i]}
    IN  IF differ = {} THEN Len(s) < Len(t)
        ELSE LET i == CHOOSE d \in differ : \A e \in differ : d <= e
             IN  Code(s[i]) < Code(t[i])

(***************************************************************************)
(* list(a_set) and "for x in a_set": the elements in an order that is a    *)
(* function of the set and of the hash seed.  CPython's actual order is    *)
(* the slot order of the hash table; the model takes the sorted order      *)
(* rotated by the seed, so that different seeds give different orders of   *)
(* any set with two or more elements while seed 0 gives the sorted one.    *)
(***************************************************************************)
RECURSIVE SetToSeq(_)
SetToSeq(S) == IF S = {} THEN <<>>
               ELSE LET x == CHOOSE y \in S : TRUE IN <<x>> \o SetToSeq(S \ {x})

Sorted(S) == SortSeq(SetToSeq(S), StrLess)

Rotate(s, n) == IF s = <<>> THEN s
                ELSE [i \in 1..Len(s) |-> s[((i - 1 + n) % Len(s)) + 1]]

ListOfSet(S, seed) == Rotate(Sorted(S), seed)

\* list(set(a_list)): ListOfSet(ToSet(list), seed), computed from the list's
\* first occurrences
FirstOccurrences(list) ==
    LET firsts == SelectSeq([i \in 1..Len(list) |-> <<i, list[i]>>],
                            LAMBDA p : \A j \in 1..(p[1] - 1) : list[j] # p[2])
    IN  [k \in 1..Len(firsts) |-> firsts[k][2]]

ListOfSetOfList(list, seed) ==
    CHOOSE r \in {Rotate(SortSeq(FirstOccurrences(l), StrLess), seed) : l \in {list}} : TRUE

(***************************************************************************)
(* Class constants, lines 48-69.                                           *)
(***************************************************************************)
L33T_KEYS == {"a","e","i","o","s","t","b","g","l","z"}

L33T_MAP(c) == CASE c = "a" -> <<"4","@">>
                 [] c = "e" -> <<"3">>
                 [] c = "i" -> <<"1","!">>
                 [] c = "o" -> <<"0">>
                 [] c = "s" -> <<"5","$">>
                 [] c = "t" -> <<"7","+">>
                 [] c = "b" -> <<"8","6">>
                 [] c = "g" -> <<"9">>
                 [] c = "l" -> <<"1">>
                 [] c = "z" -> <<"2">>

COMMON_SUFFIXES == << <<>>, <<"!">>, <<"@">>, <<"#">>, <<"$">>, <<"%">>, <<"^">>,
    <<"&">>, <<"*">>, <<"?">>, <<"1","2","3">>, <<"1","2","3","4">>, <<"0","0">>,
    <<"0","1">>, <<"0","0","7">>, <<"1">>, <<"2">>, <<"3">>, <<"4">>, <<"5">>,
    <<"6","9">>, <<"8","8">>, <<"9","9">>, <<"0","0","0">> >>

KEYBOARD_WALKS == <<
    <<"q","w","e","r","t","y">>, <<"a","s","d","f","g","h">>,
    <<"z","x","c","v","b","n">>, <<"1","2","3","4","5","6">>,
    <<"1","q","a","z","2","w","s","x">>, <<"1","q","2","w","3","e","4","r">>,
    <<"q","a","z","w","s","x">>, <<"p","a","s","s","w","o","r","d">>,
    <<"l","e","t","m","e","i","n">>, <<"a","d","m","i","n">>,
    <<"w","e","l","c","o","m","e">>, <<"m","o","n","k","e","y">> >>

(***************************************************************************)
(* _generate_base_words, lines 77-99.                                      *)
(***************************************************************************)
\* keys = [v for v in self.user_data.values() if v]   (line 88)
NonEmptyValues(ud) == SelectSeq(ud, LAMBDA v : v # <<>>)

\* lines 82-85
RawWords(ud) == UNION {{lower(ud[p]), capitalize(ud[p])} :
                       p \in {q \in 1..Len(ud) : ud[q] # <<>>}}

\* the six words of lines 92-97 for keys[i], keys[j]
PairWords(a, b) == {a \o b, b \o a, capitalize(a) \o b, a \o capitalize(b),
                    a \o <<".">> \o b, a \o <<"_">> \o b}

\* C5's mutant: the inner loop starts at i + 2
CombinationsSkipNeighbour(keys) == UNION {PairWords(keys[ij[1]], keys[ij[2]]) :
                             ij \in {p \in (1..Len(keys)) \X (1..Len(keys)) : p[1] + 1 < p[2]}}

\* lines 89-97: i in range(len(keys)), j in range(i + 1, len(keys))
Combinations(keys) == UNION {PairWords(keys[ij[1]], keys[ij[2]]) :
                             ij \in {p \in (1..Len(keys)) \X (1..Len(keys)) : p[1] < p[2]}}

\* the set `words` at line 99
BaseWordSet(ud) == RawWords(ud) \cup Combinations(NonEmptyValues(ud))

\* return list(words)
generate_base_words(ud, seed) == ListOfSet(BaseWordSet(ud), seed)

(***************************************************************************)
(* _leet_transform, lines 101-119.  The method returns a list; its only    *)
(* caller (line 158) puts the elements into a set, and the list of line    *)
(* 119 is list(a_set), so the model returns the set of its elements.       *)
(***************************************************************************)
\* C11's mutant: the character itself, not its lowercase form, is looked up
LeetablePositionsExactCase(w) == {i \in 1..Len(w) : w[i] \in L33T_KEYS}

\* line 108
leetable_positions(w) == {i \in 1..Len(w) : LowerChar(w[i]) \in L33T_KEYS}

\* line 113: one alternative for each of the chosen positions
Alternatives(w, pos) == ToSet(L33T_MAP(LowerChar(w[pos])))

Combos(w, positions) ==
    {c \in [positions -> UNION {Alternatives(w, pos) : pos \in positions}] :
        \A pos \in positions : c[pos] \in Alternatives(w, pos)}

\* lines 114-117
Substitute(w, positions, combo) ==
    [i \in 1..Len(w) |-> IF i \in positions THEN combo[i] ELSE w[i]]

\* lines 112-117 for one k
LeetRound(w, k) == UNION {{Substitute(w, positions, combo) : combo \in Combos(w, positions)} :
                       positions \in {P \in SUBSET leetable_positions(w) : Cardinality(P) = k}}

\* the loop of lines 111-117
LeetRounds(w, max_subs) ==
    UNION {LeetRound(w, k) : k \in 1..Min(max_subs, Cardinality(leetable_positions(w)))}

\* C7's mutant: no early return, and the loop runs one round too many
LeetOneRoundMore(w, max_subs) ==
    {w} \cup UNION {LeetRound(w, k) :
                    k \in 1..Min(max_subs + 1, Cardinality(leetable_positions(w)))}

\* C8's mutant: only the last round of the loop is kept
LeetLastRoundOnly(w, max_subs) ==
    IF max_subs < 1 THEN {w}
    ELSE {w} \cup LeetRound(w, Min(max_subs, Cardinality(leetable_positions(w))))

leet_transform(w, max_subs) ==
    IF max_subs < 1 THEN {w}                       \* lines 103-104
    ELSE {w} \cup LeetRounds(w, max_subs)          \* lines 106-119

(***************************************************************************)
(* _generate_number_variations, lines 121-136.                             *)
(***************************************************************************)
IDIOMS == <<111, 123, 234, 345, 456, 567, 678, 789, 300, 999, 799, 100, 200>>

\* C10's mutant: range(current_year - 10, current_year + 4), one year short
NumberListShort(year) == [i \in 1..14 |-> str(year - 10 + (i - 1))]
                    \o [i \in 1..100 |-> zfill(str(i - 1), 2)]
                    \o [i \in 1..Len(IDIOMS) |-> str(IDIOMS[i])]

\* the list `numbers` at line 135: 15 years, then 00..99, then the idioms
NumberList(year) == [i \in 1..15 |-> str(year - 10 + (i - 1))]
                    \o [i \in 1..100 |-> zfill(str(i - 1), 2)]
                    \o [i \in 1..Len(IDIOMS) |-> str(IDIOMS[i])]

\* return list(set(numbers))
generate_number_variations(year, seed) == ListOfSetOfList(NumberList(year), seed)

(***************************************************************************)
(* generate_wordlist, lines 138-192.                                       *)
(*                                                                         *)
(* The file is a sequence of blocks, each tagged with the statement that   *)
(* wrote it.  A walk written on its own (lines 148 and 187) is a block     *)
(* whose one line is its stem.  The lines one iteration of the loop of     *)
(* line 151 writes (lines 181-183) number in the tens of thousands and are *)
(* a function of the set leet_variants of line 158, of number_variations   *)
(* and of COMMON_SUFFIXES: such a block keeps leet_variants as its stems,  *)
(* and LinesOf gives its lines.  The lines of a block are adjacent in the  *)
(* file, in the order the hash seed gives the set final_words, which the   *)
(* model leaves open.                                                      *)
(***************************************************************************)
Block(from, stems) == [from |-> from, stems |-> stems]

\* what the file holds before the run, when it exists
OldFile == <<Block("old", {<<"o","l","d">>})>>

\* C4's mutant: the walks are written whatever the flag says
WalkBlocksAlways(from, enabled) ==
    [i \in 1..Len(KEYBOARD_WALKS) |-> Block(from, {KEYBOARD_WALKS[i]})]

\* lines 146-148 and 186-187: one line per walk, in list order
WalkBlocks(from, enabled) ==
    IF enabled THEN [i \in 1..Len(KEYBOARD_WALKS) |-> Block(from, {KEYBOARD_WALKS[i]})]
    ELSE <<>>

\* line 153
variants(base_word) == {lower(base_word), capitalize(base_word)}

\* lines 156-158
leet_variants(base_word, max_subs) ==
    UNION {leet_transform(variant, max_subs) : variant \in variants(base_word)}

\* lines 161-172
all_combinations(lv, numbers) ==
    lv \cup {w \o num : w \in lv, num \in numbers} \cup {num \o w : w \in lv, num \in numbers}

\* lines 175-178
final_words(ac) == {w \o suffix : w \in ac, suffix \in ToSet(COMMON_SUFFIXES)}

\* C1's mutant: the lower limit alone
LengthOkLowerOnly(w) == 4 <= Len(w)

\* line 182
LengthOk(w) == 4 <= Len(w) /\ Len(w) <= 64

\* lines 161-183: the lines written for the leet variants lv of one base word
Written(lv, numbers) ==
    {w \in final_words(all_combinations(lv, ToSet(numbers))) : LengthOk(w)}

\* the lines of a block of the file
LinesOf(block, numbers) ==
    IF block.from = "expansion" THEN Written(block.stems, numbers) ELSE block.stems

\* one iteration of the loop of line 151; nothing is written when no word passes
ExpansionBlocks(base_word, max_subs, numbers) ==
    IF Written(leet_variants(base_word, max_subs), numbers) = {} THEN <<>>
    ELSE <<Block("expansion", leet_variants(base_word, max_subs))>>

RECURSIVE AllExpansionBlocks(_, _, _)
AllExpansionBlocks(words, max_subs, numbers) ==
    IF words = <<>> THEN <<>>
    ELSE ExpansionBlocks(words[1], max_subs, numbers)
         \o AllExpansionBlocks(Tail(words), max_subs, numbers)

\* The file a complete run of WordlistGenerator(ud).generate_wordlist(...) leaves.
Output(ud, year, seed, max_subs, common, keyboard) ==
    WalkBlocks("keyboard", keyboard)
    \o AllExpansionBlocks(generate_base_words(ud, seed), max_subs,
                          generate_number_variations(year, seed))
    \o WalkBlocks("common", common)

(***************************************************************************)
(* A generation run: a front-end (CLIInterface.run, lines 223-247, or      *)
(* GUIInterface.generate_wordlist, lines 429-452) or any other caller      *)
(* constructs a WordlistGenerator and calls generate_wordlist.  File       *)
(* system errors are not modelled: open and write succeed.                 *)
(***************************************************************************)
Jane == <<"J","a","n","e">>
Rex == <<"R","e","x">>
Lego == <<"l","e","g","o">>
Long == [i \in 1..LongLen |-> "x"]

\* The profiles of the runs; <<>> is a field left empty (None or "").
RunProfiles == {<<>>, << <<>> >>, <<Lego>>, <<Long>>, <<Jane, Rex>>}

\* any(user_data.values())
AnyValue(ud) == \E p \in 1..Len(ud) : ud[p] # <<>>

Init ==
    /\ user_data \in RunProfiles
    /\ max_leet_subs \in Budgets
    /\ current_year = RunYear
    /\ hashseed \in Seeds
    /\ include_common \in BOOLEAN
    /\ include_keyboard \in BOOLEAN
    /\ exists \in BOOLEAN
    \* the profile of two fields runs with the budget of the documented scenario
    /\ Len(NonEmptyValues(user_data)) > 1 => max_leet_subs = 0
    \* budgets above 1 run on <<>> and <<Lego>>, writing the candidates alone to a
    \* new file
    /\ max_leet_subs > 1 => /\ user_data \in {<<>>, <<Lego>>}
                            /\ hashseed = 0
                            /\ ~include_common /\ ~include_keyboard /\ ~exists
    /\ f = IF exists THEN OldFile ELSE <<>>
    /\ base_words = <<>>
    /\ number_variations = <<>>
    /\ idx = 0
    /\ pc = "start"
    /\ word = <<>>
    /\ ret = <<>>

\* lines 232-234 and 433-435: a front-end refuses a profile with no value
RejectProfile ==
    /\ pc = "start"
    /\ ~AnyValue(user_data)
    /\ pc' = "rejected"
    /\ UNCHANGED <<user_data, current_year, hashseed, max_leet_subs, include_common,
                   include_keyboard, exists, f, base_words, number_variations, idx, word, ret>>

\* __init__, lines 71-75; a front-end reaches it only with some value, another
\* caller with any profile
Construct ==
    /\ pc = "start"
    /\ base_words' = generate_base_words(user_data, hashseed)
    /\ pc' = "constructed"
    /\ UNCHANGED <<user_data, current_year, hashseed, max_leet_subs, include_common,
                   include_keyboard, exists, f, number_variations, idx, word, ret>>

\* lines 140-148: open(output_file, 'w') creates or truncates the file
GenerateOpen ==
    /\ pc = "constructed"
    /\ number_variations' = generate_number_variations(current_year, hashseed)
    /\ exists' = TRUE
    /\ f' = WalkBlocks("keyboard", include_keyboard)
    /\ idx' = 1
    /\ pc' = "writing"
    /\ UNCHANGED <<user_data, current_year, hashseed, max_leet_subs, include_common,
                   include_keyboard, base_words, word, ret>>

\* lines 151-183: one iteration of the loop over self.base_words
GenerateBaseWord ==
    /\ pc = "writing"
    /\ idx <= Len(base_words)
    /\ f' = f \o ExpansionBlocks(base_words[idx], max_leet_subs, number_variations)
    /\ idx' = idx + 1
    /\ UNCHANGED <<user_data, current_year, hashseed, max_leet_subs, include_common,
                   include_keyboard, exists, base_words, number_variations, pc, word, ret>>

\* lines 185-192: the loop is over
GenerateClose ==
    /\ pc = "writing"
    /\ idx > Len(base_words)
    /\ f' = f \o WalkBlocks("common", include_common)
    /\ pc' = "done"
    /\ UNCHANGED <<user_data, current_year, hashseed, max_leet_subs, include_common,
                   include_keyboard, exists, base_words, number_variations, idx, word, ret>>

Next == RejectProfile \/ Construct \/ GenerateOpen \/ GenerateBaseWord \/ GenerateClose

Spec == Init /\ [][Next]_vars

(***************************************************************************)
(* Direct calls of the methods, for the properties of the methods alone.   *)
(***************************************************************************)
\* what a direct call leaves alone
NoRun ==
    /\ include_common = FALSE
    /\ include_keyboard = FALSE
    /\ exists = FALSE
    /\ f = <<>>
    /\ base_words = <<>>
    /\ number_variations = <<>>
    /\ idx = 0
    /\ ret = <<>>

RECURSIVE SeqsUpTo(_, _)
\* the sequences over S of length at most n
SeqsUpTo(S, n) == IF n = 0 THEN {<<>>}
                  ELSE LET shorter == SeqsUpTo(S, n - 1)
                       IN  shorter \cup {Append(s, x) : s \in shorter, x \in S}

\* WordlistGenerator(user_data): profiles of up to MaxFields fields
BaseValues == {<<>>, Jane, Rex, <<"a","b">>}

InitBase ==
    /\ user_data \in SeqsUpTo(BaseValues, MaxFields)
    /\ hashseed \in Seeds
    /\ current_year = RunYear
    /\ max_leet_subs = 0
    /\ word = <<>>
    /\ pc = "start"
    /\ NoRun

NextBase == RejectProfile \/ Construct

SpecBase == InitBase /\ [][NextBase]_vars

\* generator._leet_transform(word, max_subs)
LeetChars == {"a", "e", "B", "x"}

InitLeet ==
    /\ word \in SeqsUpTo(LeetChars, MaxWordLen)
    /\ max_leet_subs \in Budgets
    /\ user_data = <<>>
    /\ hashseed = 0
    /\ current_year = RunYear
    /\ pc = "call"
    /\ NoRun

CallLeetTransform ==
    /\ pc = "call"
    /\ ret' = leet_transform(word, max_leet_subs)
    /\ pc' = "returned"
    /\ UNCHANGED <<user_data, current_year, hashseed, max_leet_subs, include_common,
                   include_keyboard, exists, f, base_words, number_variations, idx, word>>

NextLeet == CallLeetTransform

SpecLeet == InitLeet /\ [][NextLeet]_vars

\* generator._generate_number_variations(), the clock in any year
InitNum ==
    /\ current_year \in MinYear..MaxYear
    /\ hashseed \in Seeds
    /\ user_data = <<>>
    /\ max_leet_subs = 0
    /\ word = <<>>
    /\ pc = "call"
    /\ NoRun

CallNumberVariations ==
    /\ pc = "call"
    /\ ret' = generate_number_variations(current_year, hashseed)
    /\ pc' = "returned"
    /\ UNCHANGED <<user_data, current_year, hashseed, max_leet_subs, include_common,
                   include_keyboard, exists, f, base_words, number_variations, idx, word>>

NextNum == CallNumberVariations

SpecNum == InitNum /\ [][NextNum]_vars

(***************************************************************************)
(* The claims.                                                             *)
(***************************************************************************)
\* the file holds the line w, written by a statement tagged `from`
Wrote(file, from, w) ==
    \E i \in 1..Len(file) : file[i].from = from /\ w \in LinesOf(file[i], number_variations)

\* the files a and b hold the same lines, block by block
SameFile(a, b) ==
    /\ Len(a) = Len(b)
    /\ \A i \in 1..Len(a) :
          \/ a[i] = b[i]
          \/ /\ a[i].from = b[i].from
             /\ LinesOf(a[i], number_variations) = LinesOf(b[i], number_variations)

\* the file as it was before the run
Untouched == f = IF exists THEN OldFile ELSE <<>>

\* C1: every line written from the base-word expansion, for any profile, budget
\* and flags, has a length between 4 and 64 inclusive.
C1_ExpansionLineLengths ==
    pc = "done" =>
        \A i \in 1..Len(f) :
            f[i].from = "expansion" =>
                \A w \in LinesOf(f[i], number_variations) : 4 <= Len(w) /\ Len(w) <= 64

\* C1's case: a run on the long value wrote lines of the two limit lengths.
C1_Witness ==
    /\ pc = "done"
    /\ user_data = <<Long>>
    /\ \E i \in 1..Len(f) :
          /\ f[i].from = "expansion"
          /\ \E w \in LinesOf(f[i], number_variations) : Len(w) = 64
          /\ \E w \in LinesOf(f[i], number_variations) : Len(w) = LongLen

\* C2: with a profile whose fields are all empty, generation fails before any
\* work begins: the run never opens the file, which stays as it was.
C2_EmptyProfileFails ==
    ~AnyValue(user_data) => pc \notin {"writing", "done"} /\ Untouched

\* C3: a run's output is a function of the profile, the configuration and the
\* year: a run with any other hash seed writes the same blocks in the same order.
C3_Deterministic ==
    pc = "done" =>
        \A seed \in Seeds :
            SameFile(f, Output(user_data, current_year, seed, max_leet_subs,
                               include_common, include_keyboard))

\* C4: a finished run's file is the walks in list order if include_keyboard (and
\* no keyboard line otherwise), then nothing but candidates, then the walks in
\* list order again if include_common (and no such line otherwise).
C4_WalksFirstAndLast ==
    pc = "done" =>
        LET n == Len(f)
            k == IF include_keyboard THEN Len(KEYBOARD_WALKS) ELSE 0
            c == IF include_common THEN Len(KEYBOARD_WALKS) ELSE 0
        IN  /\ n >= k + c
            /\ \A i \in 1..k : f[i] = [from |-> "keyboard", stems |-> {KEYBOARD_WALKS[i]}]
            /\ \A i \in 1..c : f[n - c + i] = [from |-> "common", stems |-> {KEYBOARD_WALKS[i]}]
            /\ \A i \in (k + 1)..(n - c) : f[i].from = "expansion"

\* C4's case: both flags set and candidates written between the two lists.
C4_Witness ==
    /\ pc = "done"
    /\ include_keyboard /\ include_common
    /\ Len(f) > 2 * Len(KEYBOARD_WALKS)
    /\ f[1].stems = {KEYBOARD_WALKS[1]}
    /\ f[Len(f)].stems = {KEYBOARD_WALKS[Len(KEYBOARD_WALKS)]}

\* the six strings the claim names for the values a and b
C5_SixWords(a, b) == {a \o b, b \o a, capitalize(a) \o b, a \o capitalize(b),
                      a \o <<".">> \o b, a \o <<"_">> \o b}

C6_Expected == {<<"j","a","n","e">>,
                <<"J","a","n","e">>,
                <<"r","e","x">>,
                <<"R","e","x">>,
                <<"j","a","n","e","r","e","x">>,
                <<"r","e","x","j","a","n","e">>,
                <<"J","a","n","e","r","e","x">>,
                <<"j","a","n","e","R","e","x">>,
                <<"j","a","n","e",".","r","e","x">>,
                <<"j","a","n","e","_","r","e","x">>}

\* C6: the run on {first: Jane, pet: Rex} with budget 0 and both flags off writes
\* each of the ten expected lines that is 4 to 64 long, and does not write j4ne.
C6_JaneRexScenario ==
    (/\ pc = "done"
     /\ user_data = <<Jane, Rex>>
     /\ max_leet_subs = 0
     /\ ~include_keyboard /\ ~include_common)
        => /\ \A w \in C6_Expected :
                (4 <= Len(w) /\ Len(w) <= 64) => Wrote(f, "expansion", w)
           /\ ~Wrote(f, "expansion", <<"j","4","n","e">>)

\* C7: _leet_transform(word, 0) returns the word and nothing else.
C7_ZeroBudgetIsWord ==
    (pc = "returned" /\ max_leet_subs = 0) => ret = {word}

\* C7's case: budget 0 on a word with substitutable characters.
C7_Witness ==
    /\ pc = "returned"
    /\ max_leet_subs = 0
    /\ word = <<"a", "B", "e">>
    /\ ret = {word}

\* C8: for k >= 1 the result of _leet_transform(word, k) contains the result of
\* _leet_transform(word, k - 1), and so is at least as large.
C8_MonotoneInBudget ==
    (pc = "returned" /\ max_leet_subs >= 1) =>
        /\ leet_transform(word, max_leet_subs - 1) \subseteq ret
        /\ Cardinality(leet_transform(word, max_leet_subs - 1)) <= Cardinality(ret)

\* C8's case: a second substitution adds words to those of one substitution.
C8_Witness ==
    /\ pc = "returned"
    /\ max_leet_subs = 2
    /\ word = <<"a", "B", "e">>
    /\ <<"4", "B", "e">> \in ret
    /\ <<"4", "8", "e">> \in ret
    /\ <<"4", "8", "e">> \notin leet_transform(word, 1)

\* C9: a budget below 0 gives the output of budget 0, and a budget above 3 gives
\* the output of budget 3.
C9_BudgetClamped ==
    pc = "done" =>
        /\ max_leet_subs < 0 =>
               SameFile(f, Output(user_data, current_year, hashseed, 0,
                                  include_common, include_keyboard))
        /\ max_leet_subs > 3 =>
               SameFile(f, Output(user_data, current_year, hashseed, 3,
                                  include_common, include_keyboard))

\* the decimal digits of a year of four digits
C10_Year(y) == <<Digits[(y \div 1000) + 1], Digits[((y \div 100) % 10) + 1],
                 Digits[((y \div 10) % 10) + 1], Digits[(y % 10) + 1]>>

C10_TwoDigits == {<<Digits[a], Digits[b]>> : a, b \in 1..10}

C10_Idioms == {<<"1","1","1">>, <<"1","2","3">>, <<"2","3","4">>, <<"3","4","5">>, <<"4","5","6">>, <<"5","6","7">>, <<"6","7","8">>, <<"7","8","9">>, <<"3","0","0">>, <<"9","9","9">>, <<"7","9","9">>, <<"1","0","0">>, <<"2","0","0">>}

\* C10: the numeric variations of year y are exactly the 15 years y-10..y+4, the
\* 100 strings 00..99 and the 13 idioms; exactly 100 of them have length two, the
\* year itself is among them, and none occurs twice.
C10_NumberVariations ==
    pc = "returned" =>
        /\ ToSet(ret) = {C10_Year(y) : y \in (current_year - 10)..(current_year + 4)}
                        \cup C10_TwoDigits \cup C10_Idioms
        /\ C10_Year(current_year) \in ToSet(ret)
        /\ Cardinality({n \in ToSet(ret) : Len(n) = 2}) = 100
        /\ \A i, j \in 1..Len(ret) : i # j => ret[i] # ret[j]

\* C10's case: the call returned in 2024, with 2024, 2014, 2028, 07 and 799.
C10_Witness ==
    /\ pc = "returned"
    /\ current_year = 2024
    /\ Len(ret) = 128
    /\ {<<"2","0","2","4">>, <<"2","0","1","4">>, <<"2","0","2","8">>,
        <<"0","7">>, <<"7","9","9">>} \subseteq ToSet(ret)

\* the characters a result over LeetChars could hold: the characters themselves,
\* their lowercase forms, and the alternatives of those that are keys
C11_Chars == LeetChars \cup {LowerChar(c) : c \in LeetChars}
             \cup UNION {ToSet(L33T_MAP(LowerChar(c))) :
                            c \in {d \in LeetChars : LowerChar(d) \in L33T_KEYS}}

\* the positions where s differs from w
C11_Differing(w, s) == {i \in 1..Len(w) : s[i] # w[i]}

\* s differs from w in at most k positions, each holding a character whose
\* lowercase form is a key, replaced by one of that key's alternatives
C11_Allowed(w, s, k) ==
    /\ Len(s) = Len(w)
    /\ Cardinality(C11_Differing(w, s)) <= k
    /\ \A i \in C11_Differing(w, s) :
           /\ LowerChar(w[i]) \in L33T_KEYS
           /\ \E n \in 1..Len(L33T_MAP(LowerChar(w[i]))) :
                  s[i] = L33T_MAP(LowerChar(w[i]))[n]

\* C11: for a budget k >= 1, _leet_transform(word, k) is exactly the set of the
\* strings of the length of word that differ from it in at most k positions, every
\* differing position holding a character whose lowercase form is a key of
\* L33T_MAP and now one of that key's alternatives; the other positions keep their
\* character and case, and an uppercase key is replaced like its lowercase form.
C11_ExactlyWithinBudget ==
    (pc = "returned" /\ max_leet_subs >= 1) =>
        /\ \A r \in ret : C11_Allowed(word, r, max_leet_subs)
        /\ \A s \in [1..Len(word) -> C11_Chars] :
               C11_Allowed(word, s, max_leet_subs) => s \in ret

\* C11's case: Bax with budget 2 returned Bax, 8@x, B4x and 6ax among its nine
\* strings, and not bax.
C11_Witness ==
    /\ pc = "returned"
    /\ word = <<"B", "a", "x">>
    /\ max_leet_subs = 2
    /\ {<<"B","a","x">>, <<"8","@","x">>, <<"B","4","x">>, <<"6","a","x">>} \subseteq ret
    /\ <<"b","a","x">> \notin ret
    /\ Cardinality(ret) = 9

====
